---- MODULE Spec2Model ----
(***************************************************************************)
(* A model of libcloud/compute/drivers/libvirt_driver.py: one              *)
(* LibvirtNodeDriver instance, the libvirt connection it holds, and the    *)
(* hypervisor behind that connection, whose domains appear, vanish and     *)
(* change state on their own while the driver runs.                        *)
(***************************************************************************)
EXTENDS Integers, Sequences, FiniteSets, TLC

\* ------------------------------------------------------------- bounds

\* Domain objects the hypervisor may know: 1..MaxDomains.
MaxDomains == 3
\* Numeric states a domain may report: -1..MaxCode (the table defines 0..7).
MaxCode == 8
\* Return codes of a native call: -1..MaxRc.
MaxRc == 1

Dom == 1..MaxDomains
StateCodes == (-1)..MaxCode
RetCodes == (-1)..MaxRc

\* UUID strings of the domains, and one UUID no domain has.
UUIDs == <<"uuid-a", "uuid-b">>
NoSuchUUID == "uuid-none"
URIs == {"qemu:///system", "vbox:///session"}

\* --------------------------------------------------------- NodeState

RUNNING == "RUNNING"
PENDING == "PENDING"
TERMINATED == "TERMINATED"
UNKNOWN == "UNKNOWN"
NodeState == {RUNNING, PENDING, TERMINATED, UNKNOWN}

\* LibvirtNodeDriver.NODE_STATE_MAP: a dict, defined on the keys 0..7 only.
NODE_STATE_MAP ==
    [c \in 0..7 |->
        CASE c = 0 -> TERMINATED
          [] c = 1 -> RUNNING
          [] c = 2 -> PENDING
          [] c = 3 -> TERMINATED
          [] c = 4 -> TERMINATED
          [] c = 5 -> TERMINATED
          [] c = 6 -> UNKNOWN
          [] c = 7 -> UNKNOWN]

\* Lines 70-73 with TERMINATED for a code the table lacks.
MapStateDefaultTerminated(state) ==
    IF state \in DOMAIN NODE_STATE_MAP THEN NODE_STATE_MAP[state] ELSE TERMINATED

\* list_nodes, lines 70-73: the table where it has the key, UNKNOWN elsewhere.
MapState(state) ==
    IF state \in DOMAIN NODE_STATE_MAP THEN NODE_STATE_MAP[state] ELSE UNKNOWN

\* ------------------------------------------------------------- state

VARIABLES
    have_libvirt,   \* module flag: whether "import libvirt" succeeded
    status,         \* "none": not constructed; "ok"; "failed": __init__ raised
    uri,            \* self._uri ("" before it is assigned)
    connection,     \* self.connection: a handle >= 1, 0 while unassigned
    opens,          \* the libvirt.open calls made so far: uri, and if it raised
    hyp,            \* the hypervisor: per domain, whether it exists, its state
    pc,             \* "idle", or "loop" inside list_nodes' for loop
    domains,        \* list_nodes' local: what listAllDomains returned
    nodes,          \* list_nodes' local: the Nodes built so far
                    \* (both locals are <<>> outside a call)
    last            \* the driver call that just ended: what it did and gave
                    \* (NoCall once the hypervisor has moved on since)

vars == <<have_libvirt, status, uri, connection, opens, hyp, pc, domains,
          nodes, last>>

\* ------------------------------------------------------ the hypervisor

\* Domain.UUIDString(): fixed per domain object; objects 1 and 3 share one.
UUIDString(d) == UUIDs[((d - 1) % Len(UUIDs)) + 1]
\* Domain.ID(), Domain.name(), Domain.OSType(), Connection.getType().
ID(d) == d
name(d) == <<"domain", d>>
OSType(d) == "hvm"
getType == "QEMU"
\* Domain.info(): (state, max_mem, memory, vcpu_count, used_cpu_time).
info(d) == <<hyp[d].state, 4096 * d, 2048 * d + 512, d, 100 * d>>

Live == {d \in Dom : hyp[d].live}
Gone == [live |-> FALSE, state |-> 0]

\* Connection.lookupByUUIDString(uuid): the live domain with that UUID;
\* the call raises when there is none.
Resolves(uuid) == \E d \in Live : UUIDString(d) = uuid
lookupByUUIDString(uuid) == CHOOSE d \in Live : UUIDString(d) = uuid

\* Connection.listAllDomains(): the live domains, in an order of its choosing.
Orders(S) ==
    {s \in [1..Cardinality(S) -> S] : \A i, j \in DOMAIN s : i # j => s[i] # s[j]}

\* Errors, as the caller sees them: the kind, and the call that raised it.
CallError(call) == <<"libvirtError", call>>
LookupError == CallError("lookupByUUIDString")
OpenError == CallError("open")
ListError == CallError("listAllDomains")
EnvError == <<"RuntimeError", "Libvirt driver requires 'libvirt' Python package">>

\* What a call on the driver left behind.
NoCall == [op |-> "none", arg |-> "", outcome |-> "none", ret |-> FALSE,
           error |-> <<>>, at |-> 0, listed |-> <<>>, nodes |-> <<>>,
           lookups |-> <<>>, calls |-> <<>>]

\* What is left of the last call's record after a step of the hypervisor:
\* the record describes the moment the call ended, so only that of a
\* list_nodes still running is kept.
Observed == IF pc = "loop" THEN last ELSE NoCall

TypeOK ==
    /\ have_libvirt \in BOOLEAN
    /\ status \in {"none", "ok", "failed"}
    /\ connection \in 0..1
    /\ hyp \in [Dom -> [live : BOOLEAN, state : StateCodes]]
    /\ pc \in {"idle", "loop"}

Init ==
    /\ have_libvirt \in BOOLEAN
    /\ status = "none"
    /\ uri = ""
    /\ connection = 0
    /\ opens = <<>>
    /\ hyp = [d \in Dom |-> Gone]
    /\ pc = "idle"
    /\ domains = <<>>
    /\ nodes = <<>>
    /\ last = NoCall

\* ------------------------------------------------ hypervisor's own steps

\* A domain is defined: no live domain has its UUID.
DomainAppears(d, s) ==
    /\ ~hyp[d].live
    /\ ~Resolves(UUIDString(d))
    /\ hyp' = [hyp EXCEPT ![d] = [live |-> TRUE, state |-> s]]
    /\ last' = Observed
    /\ UNCHANGED <<have_libvirt, status, uri, connection, opens, pc, domains,
                   nodes>>

DomainVanishes(d) ==
    /\ hyp[d].live
    /\ hyp' = [hyp EXCEPT ![d] = Gone]
    /\ last' = Observed
    /\ UNCHANGED <<have_libvirt, status, uri, connection, opens, pc, domains,
                   nodes>>

DomainChangesState(d, s) ==
    /\ hyp[d].live
    /\ hyp[d].state # s
    /\ hyp' = [hyp EXCEPT ![d].state = s]
    /\ last' = Observed
    /\ UNCHANGED <<have_libvirt, status, uri, connection, opens, pc, domains,
                   nodes>>

\* ------------------------------------------------------------ __init__

\* libvirt.open(uri): returns a new handle, or raises.
NewHandle == Len(opens) + 1

\* Lines 56-61, without the guard of lines 56-58.
InitUnguarded(u, openRaises) ==
    /\ status = "none"
    /\ uri' = u
    /\ opens' = Append(opens, [uri |-> u, raised |-> openRaises])
    /\ IF openRaises
       THEN /\ status' = "failed"
            /\ last' = [NoCall EXCEPT !.op = "__init__", !.arg = u,
                                      !.outcome = "raise", !.error = OpenError]
            /\ UNCHANGED connection
       ELSE /\ status' = "ok"
            /\ connection' = NewHandle
            /\ last' = [NoCall EXCEPT !.op = "__init__", !.arg = u,
                                      !.outcome = "return"]
    /\ UNCHANGED <<have_libvirt, hyp, pc, domains, nodes>>

__init__(u, openRaises) ==
    /\ status = "none"
    /\ IF ~have_libvirt
       THEN /\ status' = "failed"
            /\ last' = [NoCall EXCEPT !.op = "__init__", !.arg = u,
                                      !.outcome = "raise", !.error = EnvError]
            /\ UNCHANGED <<uri, connection, opens>>
       ELSE /\ uri' = u
            /\ opens' = Append(opens, [uri |-> u, raised |-> openRaises])
            /\ IF openRaises
               THEN /\ status' = "failed"
                    /\ last' = [NoCall EXCEPT !.op = "__init__", !.arg = u,
                                   !.outcome = "raise", !.error = OpenError]
                    /\ UNCHANGED connection
               ELSE /\ status' = "ok"
                    /\ connection' = NewHandle
                    /\ last' = [NoCall EXCEPT !.op = "__init__", !.arg = u,
                                              !.outcome = "return"]
    /\ UNCHANGED <<have_libvirt, hyp, pc, domains, nodes>>

\* ---------------------------------------------------------------- Node

\* libcloud.compute.base.Node(id, name, state, public_ips, private_ips,
\* driver, extra): _uuid starts unset.
Node(id, nm, state, public_ips, private_ips, extra) ==
    [id |-> id, name |-> nm, state |-> state, public_ips |-> public_ips,
     private_ips |-> private_ips, extra |-> extra, _uuid |-> ""]

\* Node.uuid: the _uuid set on the Node, else one derived from id and driver.
DerivedUUID == "sha1(id:driver.type)"
NodeUuid(node) == IF node._uuid # "" THEN node._uuid ELSE DerivedUUID

\* ---------------------------------------------------------- list_nodes

\* The calls one pass of the for loop makes, in order (lines 68-84).
AccessorCalls == <<"info", "UUIDString", "OSType", "getType", "ID", "name",
                   "UUIDString#2">>
Failures == {"none"} \cup {AccessorCalls[i] : i \in DOMAIN AccessorCalls}

\* The call that raises in a pass over domain d: the first one when d is
\* gone by now, else the one (or none) the hypervisor lets fail.
FailingCall(d, f) == IF ~hyp[d].live THEN AccessorCalls[1] ELSE f

\* Lines 68-83, without line 84.
BuildNodeNoOverride(d) ==
    LET i == info(d)
        extra == [uuid |-> UUIDString(d), os_type |-> OSType(d),
                  types |-> getType, used_memory |-> i[3] \div 1024,
                  vcpu_count |-> i[4], used_cpu_time |-> i[5]]
    IN  Node(ID(d), name(d), MapState(i[1]), <<>>, <<>>, extra)

\* Lines 68-84 with the state read once, from the first domain enumerated.
BuildNodeFirstState(d) ==
    LET i == info(d)
        extra == [uuid |-> UUIDString(d), os_type |-> OSType(d),
                  types |-> getType, used_memory |-> i[3] \div 1024,
                  vcpu_count |-> i[4], used_cpu_time |-> i[5]]
        node == Node(ID(d), name(d), MapState(info(domains[1])[1]), <<>>,
                     <<>>, extra)
    IN  [node EXCEPT !._uuid = UUIDString(d)]

\* Lines 68-84: the Node built for one domain (used_memory is memory / 1024,
\* taken here as the integer quotient).
BuildNode(d) ==
    LET i == info(d)
        state == MapState(i[1])
        extra == [uuid |-> UUIDString(d), os_type |-> OSType(d),
                  types |-> getType, used_memory |-> i[3] \div 1024,
                  vcpu_count |-> i[4], used_cpu_time |-> i[5]]
        node == Node(ID(d), name(d), state, <<>>, <<>>, extra)
    IN  [node EXCEPT !._uuid = UUIDString(d)]

Listing == [NoCall EXCEPT !.op = "list_nodes"]

\* A call of the loop raised and a handler returns what was built so far.
AbortedPartial(failing) ==
    [Listing EXCEPT !.outcome = "return", !.at = Len(nodes) + 1,
                    !.listed = SubSeq(domains, 1, Len(nodes)),
                    !.nodes = nodes]

\* A call of the loop raised: list_nodes has no handler, the error leaves it.
Aborted(failing) ==
    [Listing EXCEPT !.outcome = "raise", !.error = CallError(failing),
                    !.at = Len(nodes) + 1]

\* Line 64 with a handler that opens the Connection anew when it raises.
list_nodes_begin_reconnect(raises, order) ==
    /\ status = "ok"
    /\ pc = "idle"
    /\ IF raises
       THEN /\ last' = [Listing EXCEPT !.outcome = "raise", !.error = ListError]
            /\ opens' = Append(opens, [uri |-> uri, raised |-> FALSE])
            /\ connection' = NewHandle
            /\ UNCHANGED <<pc, domains, nodes>>
       ELSE /\ nodes' = <<>>
            /\ UNCHANGED <<connection, opens>>
            /\ IF order = <<>>
               THEN /\ pc' = "idle"
                    /\ domains' = <<>>
                    /\ last' = [Listing EXCEPT !.outcome = "return"]
               ELSE /\ pc' = "loop"
                    /\ domains' = order
                    /\ last' = [Listing EXCEPT !.outcome = "running"]
    /\ UNCHANGED <<have_libvirt, status, uri, hyp>>

\* Line 64 and, for an empty enumeration, line 87.
list_nodes_begin(raises, order) ==
    /\ status = "ok"
    /\ pc = "idle"
    /\ IF raises
       THEN /\ last' = [Listing EXCEPT !.outcome = "raise", !.error = ListError]
            /\ UNCHANGED <<pc, domains, nodes>>
       ELSE /\ nodes' = <<>>
            /\ IF order = <<>>
               THEN /\ pc' = "idle"
                    /\ domains' = <<>>
                    /\ last' = [Listing EXCEPT !.outcome = "return"]
               ELSE /\ pc' = "loop"
                    /\ domains' = order
                    /\ last' = [Listing EXCEPT !.outcome = "running"]
    /\ UNCHANGED <<have_libvirt, status, uri, connection, opens, hyp>>

\* One pass of the for loop (lines 67-85) and, after the last, line 87.
list_nodes_loop(f) ==
    /\ pc = "loop"
    /\ LET d == domains[Len(nodes) + 1]
           failing == FailingCall(d, f)
       IN  IF failing # "none"
           THEN /\ pc' = "idle"
                /\ last' = Aborted(failing)
                /\ domains' = <<>>
                /\ nodes' = <<>>
           ELSE IF Len(nodes) + 1 = Len(domains)
                THEN /\ pc' = "idle"
                     /\ last' = [Listing EXCEPT
                                    !.outcome = "return",
                                    !.listed = domains,
                                    !.nodes = Append(nodes, BuildNode(d))]
                     /\ domains' = <<>>
                     /\ nodes' = <<>>
                ELSE /\ nodes' = Append(nodes, BuildNode(d))
                     /\ UNCHANGED <<pc, domains, last>>
    /\ UNCHANGED <<have_libvirt, status, uri, connection, opens, hyp>>

\* ------------------------------------------------ the mutating operations

\* A Node handed to an operation: one list_nodes built, or one whose uuid
\* no domain has.
NodeArgs ==
    {[id |-> ID(d), _uuid |-> UUIDString(d)] : d \in Dom}
        \cup {[id |-> 0, _uuid |-> NoSuchUUID]}

\* What a native call may do: return a code, or raise.
NativeOutcomes ==
    [raised : {FALSE}, rc : RetCodes] \cup {[raised |-> TRUE, rc |-> 0]}

\* The domain's state once a native call returned 0 (the states are those
\* named at lines 40-47).
DomainAfter(kind) ==
    CASE kind = "reboot" -> 1
      [] kind = "destroy" -> 5
      [] kind = "create" -> 1
      [] kind = "shutdown" -> 4
      [] kind = "suspend" -> 3
      [] kind = "resume" -> 1

\* The domain object the Node was built from, kept instead of looked up.
GetDomainById(node) == IF node.id \in Dom THEN node.id ELSE 0

\* _get_domain_for_node (lines 145-150): the domain the Connection maps the
\* Node's uuid to now; 0 stands for the lookup raising.
_get_domain_for_node(node) ==
    IF Resolves(NodeUuid(node))
    THEN lookupByUUIDString(NodeUuid(node))
    ELSE 0

\* The lookup raised and the operation returns False instead.
MissedReturnsFalse(done) == [done EXCEPT !.outcome = "return", !.ret = FALSE]

\* The lookup raised: nothing catches it, the operation ends with it.
Missed(done) == [done EXCEPT !.outcome = "raise", !.error = LookupError]

\* A comparison that takes every code but a negative one for success.
IsNonNegative(rc) == rc >= 0

\* The "== 0" of lines 91, 95, 107, 119, 131, 143.
IsZero(rc) == rc = 0

\* The native call, issued once more when it returned a non-zero code.
IssueUntilZero(kind, args, d, out) ==
    LET call == [kind |-> kind, dom |-> d, args |-> args, rc |-> out.rc,
                 raised |-> out.raised]
    IN  IF out.raised \/ out.rc = 0 THEN <<call>> ELSE <<call, call>>

\* The native calls an operation issues on the domain it resolved: one.
Issue(kind, args, d, out) ==
    <<[kind |-> kind, dom |-> d, args |-> args, rc |-> out.rc,
       raised |-> out.raised]>>

\* The shape the six operations share: resolve, call, compare with 0.
Operate(op, kind, args, node, out) ==
    /\ status = "ok"
    /\ pc = "idle"
    /\ LET d == _get_domain_for_node(node)
           done == [NoCall EXCEPT !.op = op, !.arg = NodeUuid(node),
                                  !.lookups = <<NodeUuid(node)>>]
       IN  IF d = 0
           THEN /\ last' = Missed(done)
                /\ UNCHANGED hyp
           ELSE /\ last' =
                     IF out.raised
                     THEN [done EXCEPT !.outcome = "raise",
                                       !.error = CallError(kind),
                                       !.calls = Issue(kind, args, d, out)]
                     ELSE [done EXCEPT !.outcome = "return",
                                       !.ret = IsZero(out.rc),
                                       !.calls = Issue(kind, args, d, out)]
                /\ hyp' = IF ~out.raised /\ out.rc = 0
                          THEN [hyp EXCEPT ![d].state = DomainAfter(kind)]
                          ELSE hyp
    /\ UNCHANGED <<have_libvirt, status, uri, connection, opens, pc, domains,
                   nodes>>

reboot_node(node, out) == Operate("reboot_node", "reboot", <<0>>, node, out)

destroy_node(node, out) == Operate("destroy_node", "destroy", <<>>, node, out)

ex_start_node(node, out) == Operate("ex_start_node", "create", <<>>, node, out)

ex_shutdown_node(node, out) ==
    Operate("ex_shutdown_node", "shutdown", <<>>, node, out)

ex_suspend_node(node, out) ==
    Operate("ex_suspend_node", "suspend", <<>>, node, out)

ex_resume_node(node, out) ==
    Operate("ex_resume_node", "resume", <<>>, node, out)

MutatingOps == {"reboot_node", "destroy_node", "ex_start_node",
                "ex_shutdown_node", "ex_suspend_node", "ex_resume_node"}

\* ------------------------------------------------------------ the claims

\* The last native call an operation issued.
LastCall == last.calls[Len(last.calls)]

\* A pass of list_nodes' loop that built a Node, the domain it was built
\* for, and the Node.
Built ==
    /\ pc = "loop"
    /\ \/ pc' = "loop" /\ Len(nodes') = Len(nodes) + 1
       \/ pc' = "idle" /\ last'.outcome = "return"
BuiltFor == domains[Len(nodes) + 1]
BuiltNode ==
    IF pc' = "loop" THEN nodes'[Len(nodes')] ELSE last'.nodes[Len(last'.nodes)]

\* The table of the state mapper, as specified.
StateTable(c) ==
    CASE c = 0 -> "TERMINATED"
      [] c = 1 -> "RUNNING"
      [] c = 2 -> "PENDING"
      [] c \in {3, 4, 5} -> "TERMINATED"
      [] OTHER -> "UNKNOWN"

\* The native call each operation stands for, with its arguments.
NativeOf(op) ==
    CASE op = "reboot_node" -> [kind |-> "reboot", args |-> <<0>>]
      [] op = "destroy_node" -> [kind |-> "destroy", args |-> <<>>]
      [] op = "ex_start_node" -> [kind |-> "create", args |-> <<>>]
      [] op = "ex_shutdown_node" -> [kind |-> "shutdown", args |-> <<>>]
      [] op = "ex_suspend_node" -> [kind |-> "suspend", args |-> <<>>]
      [] op = "ex_resume_node" -> [kind |-> "resume", args |-> <<>>]

\* C1: a mutating operation on a Node whose uuid resolves to a Domain issues
\* its native call, and when that call returns a code r (rather than raising)
\* the operation returns, with True exactly when r = 0 and False otherwise.
C1_TrueIffReturnCodeZero ==
    (last.op \in MutatingOps /\ Resolves(last.arg)) =>
        /\ last.calls # <<>>
        /\ ~LastCall.raised =>
              /\ last.outcome = "return"
              /\ last.ret = (LastCall.rc = 0)

C1_Witness ==
    /\ last.op = "ex_suspend_node"
    /\ last.calls # <<>>
    /\ ~LastCall.raised
    /\ LastCall.rc = -1
    /\ last.outcome = "return"
    /\ last.ret = FALSE

\* C2: a mutating operation on a Node whose uuid resolves to no Domain ends
\* with the lookup error raised, returns nothing, issues no native call, and
\* leaves every Domain as it was.
C2_LookupMissPropagates ==
    [][(last'.op \in MutatingOps /\ ~Resolves(last'.arg)) =>
          /\ last'.outcome = "raise"
          /\ last'.error = LookupError
          /\ last'.calls = <<>>
          /\ hyp' = hyp]_vars

C2_Witness ==
    /\ last.op = "destroy_node"
    /\ ~Resolves(last.arg)
    /\ last.arg = UUIDString(1)
    /\ Live # {}
    /\ last.outcome = "raise"
    /\ last.error = LookupError

\* C3: the state of a Node list_nodes returns is the specified table applied
\* to the code its Domain reports (0 -> TERMINATED, 1 -> RUNNING,
\* 2 -> PENDING, 3, 4, 5 -> TERMINATED, any other code -> UNKNOWN), and is
\* always one of the four NodeStates.  Stated of the Node built last, whose
\* Domain still reports the code it was built from.
C3_StateMapIsTheTable ==
    (last.op = "list_nodes" /\ last.outcome = "return" /\ last.nodes # <<>>) =>
        LET n == Len(last.nodes)
        IN  /\ last.nodes[n].state = StateTable(hyp[last.listed[n]].state)
            /\ \A i \in 1..n : last.nodes[i].state \in NodeState

C3_Witness ==
    /\ last.op = "list_nodes"
    /\ last.outcome = "return"
    /\ Len(last.nodes) = 2
    /\ hyp[last.listed[2]].state \notin 0..7
    /\ last.nodes[2].state = UNKNOWN
    /\ last.nodes[1].state = PENDING

\* What C4 says of the list returned.
C4_ReturnedNodes ==
    (last.op = "list_nodes" /\ last.outcome = "return") =>
        /\ Len(last.nodes) = Len(last.listed)
        /\ \A i \in 1..Len(last.nodes) :
              /\ last.nodes[i].id = ID(last.listed[i])
              /\ NodeUuid(last.nodes[i]) = UUIDString(last.listed[i])
              /\ last.nodes[i].extra.uuid = UUIDString(last.listed[i])

\* C4: a list_nodes that returns gives one Node per Domain listAllDomains
\* reported, in that order, each with uuid and extra.uuid equal to the
\* Domain's UUID string; and when a Node is built, looking its uuid up on the
\* Connection yields that Domain and no other.
C4_OneNodePerDomain ==
    /\ []C4_ReturnedNodes
    /\ [][Built =>
            /\ Resolves(NodeUuid(BuiltNode))
            /\ {d \in Live : UUIDString(d) = NodeUuid(BuiltNode)} = {BuiltFor}
            /\ lookupByUUIDString(NodeUuid(BuiltNode)) = BuiltFor]_vars

C4_Witness ==
    /\ last.op = "list_nodes"
    /\ last.outcome = "return"
    /\ last.listed = <<2, 3>>
    /\ Len(last.nodes) = 2
    /\ hyp[2].state = 1
    /\ hyp[3].state = 5
    /\ NodeUuid(last.nodes[2]) = UUIDString(3)

\* C5: without the libvirt module construction fails with the environment
\* error, calls libvirt.open never and stores no Connection; with it,
\* construction calls libvirt.open once, with the given URI, and an error
\* open raises is the error construction ends with.
C5_Construction ==
    /\ status = "none" => opens = <<>> /\ connection = 0
    /\ (status # "none" /\ ~have_libvirt) =>
          /\ status = "failed"
          /\ opens = <<>>
          /\ connection = 0
          /\ last.op = "__init__" =>
                last.outcome = "raise" /\ last.error = EnvError
    /\ (status # "none" /\ have_libvirt) =>
          /\ Len(opens) = 1
          /\ last.op = "__init__" => opens[1].uri = last.arg
          /\ opens[1].raised =>
                /\ status = "failed"
                /\ connection = 0
                /\ last.op = "__init__" =>
                      last.outcome = "raise" /\ last.error = OpenError

C5_Witness ==
    /\ ~have_libvirt
    /\ last.op = "__init__"
    /\ last.outcome = "raise"
    /\ last.error = EnvError
    /\ opens = <<>>

\* What C6 says of a list_nodes that raised.
C6_Raised ==
    (last.op = "list_nodes" /\ last.outcome = "raise") =>
        /\ last.nodes = <<>>
        /\ last.error # <<>>

\* C6: when listAllDomains raises, or a call made for a Domain in the loop
\* raises (the Domain is gone by then, or the call fails), list_nodes ends
\* with that error and returns no list, whatever it had built.
C6_NoPartialList ==
    /\ []C6_Raised
    /\ [][list_nodes_begin(TRUE, <<>>) =>
            last'.outcome = "raise" /\ last'.error = ListError]_vars
    /\ [][\A f \in Failures :
            (list_nodes_loop(f) /\ FailingCall(BuiltFor, f) # "none") =>
                /\ last'.outcome = "raise"
                /\ last'.error = CallError(FailingCall(BuiltFor, f))
                /\ last'.nodes = <<>>
                /\ pc' = "idle"]_vars

C6_Witness ==
    /\ last.op = "list_nodes"
    /\ last.outcome = "raise"
    /\ last.at = 2
    /\ last.error = CallError("info")
    /\ Cardinality(Live) = 1
    /\ last.nodes = <<>>

\* C7: every native call a mutating operation issues is issued on the Domain
\* the Connection maps the Node's uuid to when the operation is called,
\* after one lookup of that uuid; when it maps the uuid to none, the
\* operation ends with the lookup error.
C7_ResolvedAfresh ==
    [][last'.op \in MutatingOps =>
          /\ last'.lookups = <<last'.arg>>
          /\ IF Resolves(last'.arg)
             THEN /\ last'.calls # <<>>
                  /\ \A i \in 1..Len(last'.calls) :
                        last'.calls[i].dom = lookupByUUIDString(last'.arg)
             ELSE /\ last'.outcome = "raise"
                  /\ last'.error = LookupError]_vars

\* The Node's uuid is that of domain objects 1 and 3; object 1 is gone and
\* the call went to object 3.
C7_Witness ==
    /\ last.op = "ex_resume_node"
    /\ last.arg = UUIDString(1)
    /\ ~hyp[1].live
    /\ last.calls # <<>>
    /\ LastCall.dom = 3
    /\ last.outcome = "return"
    /\ last.ret

\* What C8 says of the list returned.
C8_ReturnedIps ==
    (last.op = "list_nodes" /\ last.outcome = "return") =>
        \A i \in 1..Len(last.nodes) :
            last.nodes[i].public_ips = <<>> /\ last.nodes[i].private_ips = <<>>

\* C8: every Node list_nodes returns has empty public_ips and private_ips,
\* and each Node is built with the state the table gives for the code its
\* Domain reports at that moment of that call.
C8_FreshState ==
    /\ []C8_ReturnedIps
    /\ [][Built =>
            /\ BuiltNode.state = StateTable(hyp[BuiltFor].state)
            /\ BuiltNode.public_ips = <<>>
            /\ BuiltNode.private_ips = <<>>]_vars

C8_Witness ==
    /\ last.op = "list_nodes"
    /\ last.outcome = "return"
    /\ Len(last.nodes) = 2
    /\ hyp[last.listed[1]].state = 1
    /\ hyp[last.listed[2]].state = 5
    /\ last.nodes[1].state = RUNNING
    /\ last.nodes[2].state = TERMINATED
    /\ last.nodes[1].public_ips = <<>>
    /\ last.nodes[2].private_ips = <<>>

\* C9: a mutating operation makes one lookup and at most one native call,
\* of its own kind and arguments, on a Domain that has the Node's uuid,
\* whatever the call returned or raised; list_nodes makes no lookup and no
\* such call.
C9_OneAttempt ==
    /\ last.op \in MutatingOps =>
          /\ last.lookups = <<last.arg>>
          /\ Len(last.calls) <= 1
          /\ \A i \in 1..Len(last.calls) :
                /\ last.calls[i].kind = NativeOf(last.op).kind
                /\ last.calls[i].args = NativeOf(last.op).args
                /\ UUIDString(last.calls[i].dom) = last.arg
    /\ last.op = "list_nodes" => last.calls = <<>> /\ last.lookups = <<>>

C9_Witness ==
    /\ last.op = "reboot_node"
    /\ last.outcome = "return"
    /\ ~last.ret
    /\ Len(last.calls) = 1
    /\ LastCall.rc = 1
    /\ LastCall.args = <<0>>

\* What C10 says of a constructed driver.
C10_Held ==
    status = "ok" =>
        /\ opens = <<[uri |-> uri, raised |-> FALSE]>>
        /\ connection = 1

\* C10: once construction has succeeded the driver holds the handle that the
\* one libvirt.open call gave and the URI it was given, and no step, whatever
\* a call returns or raises, changes the handle, the URI or the open calls.
C10_ConnectionKept ==
    /\ []C10_Held
    /\ [][status = "ok" =>
            /\ status' = "ok"
            /\ connection' = connection
            /\ uri' = uri
            /\ opens' = opens]_vars

C10_Witness ==
    /\ status = "ok"
    /\ connection = 1
    /\ last.op = "list_nodes"
    /\ last.outcome = "raise"
    /\ last.error = ListError

\* ----------------------------------------------------------------- Next

Next ==
    \/ \E d \in Dom, s \in StateCodes : DomainAppears(d, s)
    \/ \E d \in Dom : DomainVanishes(d)
    \/ \E d \in Dom, s \in StateCodes : DomainChangesState(d, s)
    \/ \E u \in URIs, r \in BOOLEAN : __init__(u, r)
    \/ \E r \in BOOLEAN, order \in Orders(Live) : list_nodes_begin(r, order)
    \/ \E f \in Failures : list_nodes_loop(f)
    \/ \E node \in NodeArgs, out \in NativeOutcomes : reboot_node(node, out)
    \/ \E node \in NodeArgs, out \in NativeOutcomes : destroy_node(node, out)
    \/ \E node \in NodeArgs, out \in NativeOutcomes : ex_start_node(node, out)
    \/ \E node \in NodeArgs, out \in NativeOutcomes :
          ex_shutdown_node(node, out)
    \/ \E node \in NodeArgs, out \in NativeOutcomes :
          ex_suspend_node(node, out)
    \/ \E node \in NodeArgs, out \in NativeOutcomes : ex_resume_node(node, out)

Spec == Init /\ [][Next]_vars
====
